---- MODULE Spec2Model ----
(***************************************************************************)
(* Resumable windowed indicators engine: the strategy resolver, the window *)
(* aggregator, the summary repository and the bulk orchestrator of         *)
(* app/services/indicators_service.py and app/services/trade_service.py.   *)
(*                                                                         *)
(* Timestamps are integer seconds.  A trade-log entry stands for `copies`  *)
(* consecutive CSV rows that agree in every modelled column, so that a log *)
(* of 1000 rows is two entries.                                            *)
(***************************************************************************)
EXTENDS Integers, Sequences, FiniteSets, TLC

(***************************************************************************)
(* Program constants                                                       *)
(***************************************************************************)
INITIAL_EQUITY == 100000
ANALYSIS_UPTODATE_THRESHOLD_MINUTES == 1
PeriodSeconds == 60
DrawdownPlaces == 5
ShortSeconds == 60
BatchThreshold == 1000
AccountCap == 20

(***************************************************************************)
(* Bounds of the model                                                     *)
(***************************************************************************)
NumTradingLogins == 2
MaxLogLen == 3
MaxTrades == 3
MaxTime == 120
MaxWorkers == 2
MaxKnown == 22
MaxTimeOne == 180

TimeStep == PeriodSeconds \div 2
NoTime == 0 - 1
BlockCopies == BatchThreshold - 1

Logins == 1..MaxKnown
TradingLogins == 1..NumTradingLogins
Times == {t \in 0..MaxTime : t % TimeStep = 0}
TimesOne == {t \in 0..MaxTimeOne : t % TimeStep = 0}
RunIds == 1..2

\* trades offered to the engine: a winner closing on each window start, a
\* loser closing in the middle of each window
Winner == [profit |-> 200, swap |-> 0, commission |-> 0 - 1]
Loser == [profit |-> 0 - 100, swap |-> 0 - 2, commission |-> 0]

\* further trades for the indicator formulas: one without profit, open for
\* exactly a minute, and one that loses more than the initial equity, open
\* for longer
Flat == [profit |-> 0, swap |-> 0 - 2, commission |-> 0 - 1]
Ruin == [profit |-> 0 - 150000, swap |-> 0, commission |-> 0]

Max2(a, b) == IF a >= b THEN a ELSE b

VARIABLES
    known,       \* the account source: sequence of unique logins
    trades,      \* the trade source: login -> log ordered by closed_at
    summaries,   \* the trades_summary table: a set of rows
    run,         \* per orchestrator call: its locals
    tasks        \* per orchestrator call: one future per submitted account

vars == <<known, trades, summaries, run, tasks>>

(***************************************************************************)
(* Trade source                                                            *)
(***************************************************************************)
RowCount(log, i) ==
    LET F[k \in 0..Len(log)] == IF k = 0 THEN 0 ELSE F[k - 1] + log[k].copies
    IN F[i]

\* TradeService.count_trades_for_account
CountTrades(log) == RowCount(log, Len(log))

\* TradeService.get_most_recent_trade_timestamp
MostRecentTradeTimestamp(log) ==
    IF log = <<>> THEN NoTime ELSE log[Len(log)].closed_at

(***************************************************************************)
(* Window aggregator                                                       *)
(***************************************************************************)
\* a first pass whose running peak is seeded below the initial equity
FreshStatePeakUnseeded ==
    [equity |-> INITIAL_EQUITY, peak |-> INITIAL_EQUITY \div 2,
     resume_from |-> NoTime, period_seconds |-> PeriodSeconds]

\* a first pass that starts the equity curve at 0
FreshStateFromZero ==
    [equity |-> 0, peak |-> 0,
     resume_from |-> NoTime, period_seconds |-> PeriodSeconds]

FreshState ==
    [equity |-> INITIAL_EQUITY, peak |-> INITIAL_EQUITY,
     resume_from |-> NoTime, period_seconds |-> PeriodSeconds]

\* rows read for windowing: all, or those at or after the next window start
ResumeFilterFromClosedAt(log, st) ==
    SelectSeq(log, LAMBDA t : st.resume_from = NoTime
                              \/ t.closed_at >= st.resume_from)

ResumeFilter(log, st) ==
    SelectSeq(log, LAMBDA t : st.resume_from = NoTime
                              \/ t.closed_at >= st.resume_from + st.period_seconds)

\* an equity curve that leaves the swap out
NetNoSwap(t) == t.profit + t.commission

Net(t) == t.profit + t.swap + t.commission

\* equity after the last copy of row i
EquityAfter(rows, base, i) ==
    LET F[k \in 0..Len(rows)] ==
            IF k = 0 THEN base ELSE F[k - 1] + rows[k].copies * Net(rows[k])
    IN F[i]

\* running peak after the last copy of row i
PeakAfter(rows, base, basePeak, i) ==
    LET F[k \in 0..Len(rows)] ==
            IF k = 0 THEN basePeak
            ELSE Max2(F[k - 1],
                      Max2(EquityAfter(rows, base, k - 1) + Net(rows[k]),
                           EquityAfter(rows, base, k)))
    IN F[i]

\* a fraction num/den; the drawdown of a row is (equity - peak) / peak
RelativeDrawdown(equity, peak) == [num |-> equity - peak, den |-> peak]

\* a/b <= c/d for a, c >= 0 and b, d > 0, by continued fractions
RECURSIVE FracLeq(_, _, _, _)
FracLeq(a, b, c, d) ==
    IF a \div b # c \div d THEN a \div b < c \div d
    ELSE IF a % b = 0 THEN TRUE
    ELSE IF c % d = 0 THEN FALSE
    ELSE FracLeq(d, c % d, b, a % b)

\* x <= y for fractions with positive denominators
RatLeq(x, y) ==
    IF x.num < 0 /\ y.num >= 0 THEN TRUE
    ELSE IF x.num >= 0 /\ y.num < 0 THEN FALSE
    ELSE IF x.num < 0 THEN FracLeq(0 - y.num, y.den, 0 - x.num, x.den)
    ELSE FracLeq(x.num, x.den, y.num, y.den)

\* <<floor(n * 10^k / d), remainder>> for n >= 0, d > 0, by long division
RECURSIVE Shift(_, _, _)
Shift(n, d, k) ==
    IF k = 0 THEN <<n \div d, n % d>>
    ELSE LET s == Shift(n, d, k - 1)
         IN <<s[1] * 10 + (s[2] * 10) \div d, (s[2] * 10) % d>>

\* round(n / d, places) in units of 10^-places
RoundTo(n, d, places) == (Shift(n, d, places + 1)[1] + 5) \div 10

\* the drawdowns of the rows S of the curve; within a block of equal rows the
\* least is that of its first or of its last row
Drawdowns(rows, base, basePeak, S) ==
    UNION {{RelativeDrawdown(EquityAfter(rows, base, i - 1) + Net(rows[i]),
                             Max2(PeakAfter(rows, base, basePeak, i - 1),
                                  EquityAfter(rows, base, i - 1) + Net(rows[i]))),
            RelativeDrawdown(EquityAfter(rows, base, i),
                             PeakAfter(rows, base, basePeak, i))} : i \in S}

\* global_drawdown.min().abs().round(5) * 100, in thousandths of a percent
MaxRelativeDrawdown(rows, base, basePeak, S) ==
    LET dd == Drawdowns(rows, base, basePeak, S)
        least == CHOOSE x \in dd : \A y \in dd : RatLeq(x, y)
        abs == IF least.num < 0 THEN 0 - least.num ELSE least.num
    IN RoundTo(abs, least.den, DrawdownPlaces)

\* sum of the column vals over the rows S
SumOver(vals, S) ==
    LET F[k \in 0..Len(vals)] ==
            IF k = 0 THEN 0
            ELSE F[k - 1] + (IF k \in S THEN vals[k] ELSE 0)
    IN F[Len(vals)]

GrossProfit(rows, S) ==
    SumOver([k \in 1..Len(rows) |->
                IF rows[k].profit > 0 THEN rows[k].copies * rows[k].profit ELSE 0], S)

GrossLoss(rows, S) ==
    SumOver([k \in 1..Len(rows) |->
                IF rows[k].profit < 0 THEN rows[k].copies * (0 - rows[k].profit) ELSE 0], S)

\* a profit factor without the guard on windows that hold no losing trade
ProfitFactorNoLossGuard(gross_profit, gross_loss) ==
    IF gross_profit = 0 THEN [num |-> 0, den |-> 1]
    ELSE [num |-> gross_profit, den |-> gross_loss]

\* get_profit_factor_filters: a fraction, 0 written as 0/1
ProfitFactor(gross_profit, gross_loss) ==
    IF gross_profit = 0 THEN [num |-> 0, den |-> 1]
    ELSE IF gross_loss = 0 THEN [num |-> 0, den |-> 1]
    ELSE [num |-> gross_profit, den |-> gross_loss]

\* a duration test that takes a trade held for a full minute as short
IsShortInclusive(t) == t.closed_at - t.opened_at <= ShortSeconds

\* (closed_at - opened_at).dt.total_seconds() < 60
IsShort(t) == t.closed_at - t.opened_at < ShortSeconds

\* get_hft_count_filters
HftCount(rows, S) ==
    SumOver([k \in 1..Len(rows) |-> IF IsShort(rows[k]) THEN rows[k].copies ELSE 0], S)

\* a win ratio that counts a trade without profit as a win
WinRatioNonNegative(rows, S) ==
    [num |-> SumOver([k \in 1..Len(rows) |->
                         IF rows[k].profit >= 0 THEN rows[k].copies ELSE 0], S),
     den |-> SumOver([k \in 1..Len(rows) |-> rows[k].copies], S)]

\* get_win_ratio_filters: the fraction wins / count
WinRatio(rows, S) ==
    [num |-> SumOver([k \in 1..Len(rows) |->
                         IF rows[k].profit > 0 THEN rows[k].copies ELSE 0], S),
     den |-> SumOver([k \in 1..Len(rows) |-> rows[k].copies], S)]

\* a layered count whose n_unique also counts the null of the longer trades
LayeredTradeCountNullCounted(rows, S) ==
    LET total == HftCount(rows, S)
        opened == {rows[k].opened_at : k \in {j \in S : IsShort(rows[j])}}
        nulls == IF \E j \in S : ~IsShort(rows[j]) THEN 1 ELSE 0
        count == IF total = 0 THEN 0 ELSE total - (Cardinality(opened) + nulls)
    IN IF count < 0 THEN 0 ELSE count

\* a layered count that does not subtract the distinct opening times
LayeredTradeCountAllShort(rows, S) == HftCount(rows, S)

\* get_layered_trade_filters
LayeredTradeCount(rows, S) ==
    LET total == HftCount(rows, S)
        opened == {rows[k].opened_at : k \in {j \in S : IsShort(rows[j])}}
        count == IF total = 0 THEN 0 ELSE total - Cardinality(opened)
    IN IF count < 0 THEN 0 ELSE count

\* windows closed on the right: a trade on a boundary falls into the window
\* that ends there
LowerClosedRight(t) ==
    IF t % PeriodSeconds = 0 THEN t - PeriodSeconds
    ELSE (t \div PeriodSeconds) * PeriodSeconds

\* group_by_dynamic(every="1m", closed="left"): start of the window of t
Lower(t) == (t \div PeriodSeconds) * PeriodSeconds

\* ascending enumeration of a finite set of integers
RECURSIVE SortedSeq(_)
SortedSeq(S) ==
    IF S = {} THEN <<>>
    ELSE LET m == CHOOSE x \in S : \A y \in S : x <= y
         IN <<m>> \o SortedSeq(S \ {m})

\* the windows in the order of a frame sorted by closed_at descending
WindowStartsDescending(rows) ==
    LET up == SortedSeq({Lower(rows[i].closed_at) : i \in 1..Len(rows)})
    IN [k \in 1..Len(up) |-> up[Len(up) + 1 - k]]

\* the starts of the windows that hold a row, in the order of the frame
WindowStarts(rows) == SortedSeq({Lower(rows[i].closed_at) : i \in 1..Len(rows)})

\* the first row of a group taken for its last
LastRowAsFirst(S) == CHOOSE i \in S : \A j \in S : i <= j

\* .last() of a group: the row read last
LastRow(S) == CHOOSE i \in S : \A j \in S : j <= i

\* windows of two periods, a new one every period
UpperTwoPeriods(w) == w + 2 * PeriodSeconds

\* _upper_boundary of the window that starts at w: every = period = "1m"
Upper(w) == w + PeriodSeconds

\* the opening time of the trade of the group that was opened last
LastTradeAtLatestOpened(rows, S) ==
    CHOOSE o \in {rows[i].opened_at : i \in S} : \A i \in S : rows[i].opened_at <= o

\* get_last_trade_filters: col("opened_at").last()
LastTradeAt(rows, S) == rows[LastRow(S)].opened_at

\* one summary row per non-empty window, ascending
Aggregate(login, log, st) ==
    LET rows == ResumeFilter(log, st)
        idx(w) == {i \in 1..Len(rows) : Lower(rows[i].closed_at) = w}
        last(w) == LastRow(idx(w))
        lows == WindowStarts(rows)
        rec(w) ==
            [trading_account_login |-> login,
             closed_at |-> w,
             lower_boundary |-> w,
             upper_boundary |-> Upper(w),
             hft |-> HftCount(rows, idx(w)),
             win_ratio |-> WinRatio(rows, idx(w)),
             layered_trade_count |-> LayeredTradeCount(rows, idx(w)),
             last_trade_at |-> LastTradeAt(rows, idx(w)),
             last_equity |-> EquityAfter(rows, st.equity, last(w)),
             last_peak |-> PeakAfter(rows, st.equity, st.peak, last(w)),
             max_relative_drawdown |->
                 MaxRelativeDrawdown(rows, st.equity, st.peak, idx(w)),
             profit_factor |->
                 ProfitFactor(GrossProfit(rows, idx(w)), GrossLoss(rows, idx(w))),
             src_rows |-> {rows[i].identifier : i \in idx(w)}]
    IN [k \in 1..Len(lows) |-> rec(lows[k])]

(***************************************************************************)
(* Summary repository                                                      *)
(***************************************************************************)
RecordsOf(table, login) == {r \in table : r.trading_account_login = login}

\* a primary key on closed_at alone
KeyClosedAtOnly(r) == <<r.closed_at>>

Key(r) == <<r.trading_account_login, r.closed_at>>

\* the query ordered by closed_at ascending: the oldest row
GetTradesSummaryOldest(table, login) ==
    LET mine == RecordsOf(table, login)
    IN IF mine = {} THEN {}
       ELSE {CHOOSE r \in mine : \A q \in mine : q.closed_at >= r.closed_at}

\* most recent row of the account, as a set of at most one row
GetTradesSummaryByLoginSync(table, login) ==
    LET mine == RecordsOf(table, login)
    IN IF mine = {} THEN {}
       ELSE {CHOOSE r \in mine : \A q \in mine : q.closed_at <= r.closed_at}

Range(s) == {s[i] : i \in 1..Len(s)}

\* a table without the primary key
NoPrimaryKey(table, records) == FALSE

\* the primary key (trading_account_login, closed_at) rejects the batch
PrimaryKeyViolated(table, records) ==
    \/ \E i \in 1..Len(records) : \E q \in table : Key(q) = Key(records[i])
    \/ \E i, j \in 1..Len(records) : i # j /\ Key(records[i]) = Key(records[j])

InsertRecordsSyncNoRollback(table, records, io_ok) ==
    IF records = <<>> THEN [table |-> table, ok |-> TRUE]
    ELSE IF io_ok /\ ~PrimaryKeyViolated(table, records)
         THEN [table |-> table \cup Range(records), ok |-> TRUE]
         ELSE [table |-> table \cup {records[1]}, ok |-> FALSE]

\* session.merge instead of add_all: a row with a persisted key replaces it
InsertRecordsSyncUpsert(table, records, io_ok) ==
    IF records = <<>> THEN [table |-> table, ok |-> TRUE]
    ELSE IF io_ok
         THEN [table |-> {q \in table : \A i \in 1..Len(records) :
                                           Key(q) # Key(records[i])}
                         \cup Range(records),
               ok |-> TRUE]
         ELSE [table |-> table, ok |-> FALSE]

\* add_all + commit in one transaction; any exception rolls the batch back
InsertRecordsSync(table, records, io_ok) ==
    IF records = <<>> THEN [table |-> table, ok |-> TRUE]
    ELSE IF io_ok /\ ~PrimaryKeyViolated(table, records)
         THEN [table |-> table \cup Range(records), ok |-> TRUE]
         ELSE [table |-> table, ok |-> FALSE]

(***************************************************************************)
(* Strategy resolver                                                       *)
(***************************************************************************)
IsAnalysisUptodateStrict(last_record_timestamp, latest_trade_timestamp, threshold_minutes) ==
    IF latest_trade_timestamp = NoTime THEN TRUE
    ELSE latest_trade_timestamp - last_record_timestamp < threshold_minutes * 60

\* a comparison of the distance between the two timestamps
IsAnalysisUptodateEitherWay(last_record_timestamp, latest_trade_timestamp, threshold_minutes) ==
    IF latest_trade_timestamp = NoTime THEN TRUE
    ELSE /\ latest_trade_timestamp - last_record_timestamp <= threshold_minutes * 60
         /\ last_record_timestamp - latest_trade_timestamp <= threshold_minutes * 60

IsAnalysisUptodate(last_record_timestamp, latest_trade_timestamp, threshold_minutes) ==
    IF latest_trade_timestamp = NoTime THEN TRUE
    ELSE latest_trade_timestamp - last_record_timestamp <= threshold_minutes * 60

Decision(strategy, needs_update, period_seconds, has_batch, use_batch) ==
    [strategy |-> strategy, needs_update |-> needs_update,
     period_seconds |-> period_seconds,
     has_use_batch_strategy |-> has_batch, use_batch_strategy |-> use_batch]

NoDecision == Decision("", FALSE, NoTime, FALSE, FALSE)

\* a resolver that measures the period up to closed_at, not _upper_boundary
DetermineAnalysisStrategyPeriodToClosedAt(last_record, latest_trade_timestamp, record_count) ==
    LET use_batch_strategy == record_count >= BatchThreshold
    IN IF last_record = {}
       THEN IF latest_trade_timestamp = NoTime
            THEN Decision("skip", FALSE, NoTime, FALSE, FALSE)
            ELSE Decision("from_scratch", TRUE, NoTime, TRUE, use_batch_strategy)
       ELSE LET last == CHOOSE r \in last_record : TRUE
            IN IF latest_trade_timestamp = NoTime
               THEN Decision("skip", FALSE, NoTime, FALSE, FALSE)
               ELSE IF IsAnalysisUptodate(last.closed_at, latest_trade_timestamp,
                                          ANALYSIS_UPTODATE_THRESHOLD_MINUTES)
                    THEN Decision("skip", FALSE, NoTime, FALSE, FALSE)
                    ELSE Decision("resume", TRUE,
                                  last.closed_at - last.lower_boundary,
                                  TRUE, use_batch_strategy)

\* a resolver whose batch flag needs more than 1000 trades
DetermineAnalysisStrategyBatchAbove(last_record, latest_trade_timestamp, record_count) ==
    LET use_batch_strategy == record_count > BatchThreshold
    IN IF last_record = {}
       THEN IF latest_trade_timestamp = NoTime
            THEN Decision("skip", FALSE, NoTime, FALSE, FALSE)
            ELSE Decision("from_scratch", TRUE, NoTime, TRUE, use_batch_strategy)
       ELSE LET last == CHOOSE r \in last_record : TRUE
            IN IF latest_trade_timestamp = NoTime
               THEN Decision("skip", FALSE, NoTime, FALSE, FALSE)
               ELSE IF IsAnalysisUptodate(last.closed_at, latest_trade_timestamp,
                                          ANALYSIS_UPTODATE_THRESHOLD_MINUTES)
                    THEN Decision("skip", FALSE, NoTime, FALSE, FALSE)
                    ELSE Decision("resume", TRUE,
                                  last.upper_boundary - last.lower_boundary,
                                  TRUE, use_batch_strategy)

\* last_record is a set of at most one row, latest_trade_timestamp may be NoTime
DetermineAnalysisStrategy(last_record, latest_trade_timestamp, record_count) ==
    LET use_batch_strategy == record_count >= BatchThreshold
    IN IF last_record = {}
       THEN IF latest_trade_timestamp = NoTime
            THEN Decision("skip", FALSE, NoTime, FALSE, FALSE)
            ELSE Decision("from_scratch", TRUE, NoTime, TRUE, use_batch_strategy)
       ELSE LET last == CHOOSE r \in last_record : TRUE
            IN IF latest_trade_timestamp = NoTime
               THEN Decision("skip", FALSE, NoTime, FALSE, FALSE)
               ELSE IF IsAnalysisUptodate(last.closed_at, latest_trade_timestamp,
                                          ANALYSIS_UPTODATE_THRESHOLD_MINUTES)
                    THEN Decision("skip", FALSE, NoTime, FALSE, FALSE)
                    ELSE Decision("resume", TRUE,
                                  last.upper_boundary - last.lower_boundary,
                                  TRUE, use_batch_strategy)

\* the aggregator state _process_resume passes on
ResumeStatePeakFromEquity(period_seconds, last) ==
    [equity |-> last.last_equity, peak |-> last.last_equity,
     resume_from |-> last.closed_at, period_seconds |-> period_seconds]

\* a resume that starts the peak over at the initial equity
ResumeStatePeakReset(period_seconds, last) ==
    [equity |-> last.last_equity, peak |-> INITIAL_EQUITY,
     resume_from |-> last.closed_at, period_seconds |-> period_seconds]

\* a resume that takes the end of the last window as the resume point
ResumeStateFromUpperBoundary(period_seconds, last) ==
    [equity |-> last.last_equity, peak |-> last.last_peak,
     resume_from |-> last.upper_boundary, period_seconds |-> period_seconds]

ResumeStateFromLastTradeAt(period_seconds, last) ==
    [equity |-> last.last_equity, peak |-> last.last_peak,
     resume_from |-> last.last_trade_at, period_seconds |-> period_seconds]

ResumeState(period_seconds, last) ==
    [equity |-> last.last_equity, peak |-> last.last_peak,
     resume_from |-> last.closed_at, period_seconds |-> period_seconds]

(***************************************************************************)
(* State                                                                   *)
(***************************************************************************)
NewTask(login) ==
    [login |-> login, pc |-> "queued",
     last_record |-> {}, latest |-> NoTime, info |-> NoDecision,
     frame_built |-> FALSE, read_rows |-> 0, batch |-> <<>>]

\* done: the finished futures as_completed has not yielded yet, oldest first
IdleRun ==
    [status |-> "idle", from_all |-> FALSE, account_logins |-> <<>>,
     max_workers |-> 1, done |-> <<>>,
     processed |-> 0, skipped |-> 0, failed |-> 0, errors |-> <<>>]

Prefix(s, n) == SubSeq(s, 1, IF n <= Len(s) THEN n ELSE Len(s))

\* explicit account lists: the subsets of the trading logins, ascending
AccountLists ==
    {s \in UNION {[1..n -> TradingLogins] : n \in 0..NumTradingLogins} :
        \A i, j \in 1..Len(s) : i < j => s[i] < s[j]}

EmptySource == [a \in Logins |-> <<>>]

Init ==
    /\ known = [i \in 1..NumTradingLogins |-> i]
    /\ trades = EmptySource
    /\ summaries = {}
    /\ run = [r \in RunIds |-> IdleRun]
    /\ tasks = [r \in RunIds |-> <<>>]

Running(r) == run[r].status = "running"

Finished(t) == t.pc \in {"returned", "raised"}

InProgress(r) ==
    {i \in 1..Len(tasks[r]) : tasks[r][i].pc # "queued" /\ ~Finished(tasks[r][i])}

TotalTrades ==
    LET F[a \in 0..NumTradingLogins] == IF a = 0 THEN 0 ELSE F[a - 1] + Len(trades[a])
    IN F[NumTradingLogins]

\* login 1 is the account with a long history, the others hold one trade
LogCap(a) == IF a = 1 THEN MaxLogLen ELSE 1

(***************************************************************************)
(* Environment: the trade store appends rows in closed_at order            *)
(***************************************************************************)
AppendTrade(a, t, copies) ==
    /\ Len(trades[a]) < LogCap(a)
    /\ TotalTrades < MaxTrades
    /\ t.closed_at >= MostRecentTradeTimestamp(trades[a])
    /\ copies = BlockCopies => a = 1 /\ trades[a] = <<>>
    /\ trades' = [trades EXCEPT ![a] =
                    Append(@, t @@ [identifier |-> Len(trades[a]) + 1,
                                    copies |-> copies])]
    /\ UNCHANGED <<known, summaries, run, tasks>>

TradesAt(T) ==
    {[opened_at |-> c - TimeStep, closed_at |-> c] @@
     (IF c % PeriodSeconds = 0 THEN Winner ELSE Loser) : c \in T}

NewTrades == TradesAt(Times)

(***************************************************************************)
(* execute_bulk_analysis: the orchestrating thread                         *)
(***************************************************************************)
Submit(r, logins, from_all, max_workers) ==
    /\ ~Running(r)
    /\ run' = [run EXCEPT ![r] =
                 [IdleRun EXCEPT !.status = "running", !.from_all = from_all,
                                 !.account_logins = logins,
                                 !.max_workers = max_workers]]
    /\ tasks' = [tasks EXCEPT ![r] = [i \in 1..Len(logins) |-> NewTask(logins[i])]]
    /\ UNCHANGED <<known, trades, summaries>>

\* account_logins given by the caller
StartRunWith(r, logins, max_workers) == Submit(r, logins, FALSE, max_workers)

\* account_logins is None: get_all_unique_logins()[:20]
StartRunAll(r, max_workers) ==
    Submit(r, Prefix(known, AccountCap), TRUE, max_workers)

\* the account source raises: execute_bulk_analysis raises
AccountSourceFails(r) ==
    /\ ~Running(r)
    /\ run' = [run EXCEPT ![r] = [IdleRun EXCEPT !.status = "raised", !.from_all = TRUE]]
    /\ tasks' = [tasks EXCEPT ![r] = <<>>]
    /\ UNCHANGED <<known, trades, summaries>>

\* as_completed loop without the try/except around future.result()
CollectNoCatch(r) ==
    /\ Running(r)
    /\ run[r].done # <<>>
    /\ LET i == Head(run[r].done)
           stats == [run[r] EXCEPT !.done = Tail(@)]
       IN run' = [run EXCEPT ![r] =
                    IF tasks[r][i].pc = "raised"
                    THEN [stats EXCEPT !.status = "raised"]
                    ELSE IF tasks[r][i].info.strategy = "skip"
                         THEN [stats EXCEPT !.skipped = @ + 1]
                         ELSE [stats EXCEPT !.processed = @ + 1]]
    /\ UNCHANGED <<known, trades, summaries, tasks>>

\* as_completed loop that counts every returned future as processed
CollectSkipAsProcessed(r) ==
    /\ Running(r)
    /\ run[r].done # <<>>
    /\ LET i == Head(run[r].done)
           stats == [run[r] EXCEPT !.done = Tail(@)]
       IN run' = [run EXCEPT ![r] =
                    IF tasks[r][i].pc = "raised"
                    THEN [stats EXCEPT !.failed = @ + 1,
                                       !.errors = Append(@, run[r].account_logins[i])]
                    ELSE [stats EXCEPT !.processed = @ + 1]]
    /\ UNCHANGED <<known, trades, summaries, tasks>>

\* an as_completed loop whose counters are written from a stale copy: the
\* count of an account processed earlier is lost
CollectLosingUpdate(r) ==
    /\ Running(r)
    /\ run[r].done # <<>>
    /\ LET i == Head(run[r].done)
           stats == [run[r] EXCEPT !.done = Tail(@)]
       IN run' = [run EXCEPT ![r] =
                    IF tasks[r][i].pc = "raised"
                    THEN [stats EXCEPT !.failed = @ + 1,
                                       !.errors = Append(@, run[r].account_logins[i])]
                    ELSE IF tasks[r][i].info.strategy = "skip"
                         THEN [stats EXCEPT !.skipped = @ + 1]
                         ELSE [stats EXCEPT !.processed = 1]]
    /\ UNCHANGED <<known, trades, summaries, tasks>>

\* one iteration of the as_completed loop
Collect(r) ==
    /\ Running(r)
    /\ run[r].done # <<>>
    /\ LET i == Head(run[r].done)
           stats == [run[r] EXCEPT !.done = Tail(@)]
       IN run' = [run EXCEPT ![r] =
                    IF tasks[r][i].pc = "raised"
                    THEN [stats EXCEPT !.failed = @ + 1,
                                       !.errors = Append(@, run[r].account_logins[i])]
                    ELSE IF tasks[r][i].info.strategy = "skip"
                         THEN [stats EXCEPT !.skipped = @ + 1]
                         ELSE [stats EXCEPT !.processed = @ + 1]]
    /\ UNCHANGED <<known, trades, summaries, tasks>>

\* a call that returns as soon as no finished future is waiting, without
\* the pool shutdown that waits for the pipelines still running
ReturnStatsEarly(r) ==
    /\ Running(r)
    /\ run[r].done = <<>>
    /\ run' = [run EXCEPT ![r].status = "returned"]
    /\ tasks' = [tasks EXCEPT ![r] = <<>>]
    /\ UNCHANGED <<known, trades, summaries>>

\* the loop is exhausted and the pool is shut down: the statistics are returned
ReturnStats(r) ==
    /\ Running(r)
    /\ run[r].done = <<>>
    /\ \A i \in 1..Len(tasks[r]) : Finished(tasks[r][i])
    /\ run' = [run EXCEPT ![r].status = "returned"]
    /\ tasks' = [tasks EXCEPT ![r] = <<>>]
    /\ UNCHANGED <<known, trades, summaries>>

(***************************************************************************)
(* process_account_by_strategy: one pool worker running one account         *)
(***************************************************************************)
\* the worker moves on; a finished future is handed to as_completed
SetTask(r, i, t) ==
    /\ tasks' = [tasks EXCEPT ![r][i] = t]
    /\ run' = IF Finished(t) THEN [run EXCEPT ![r].done = Append(@, i)] ELSE run

\* a pool that starts a queued future whatever the number of busy workers
ReadLastRecordUnbounded(r, i) ==
    /\ Running(r)
    /\ i \in 1..Len(tasks[r])
    /\ tasks[r][i].pc = "queued"
    /\ \A j \in 1..(i - 1) : tasks[r][j].pc # "queued"
    /\ SetTask(r, i, [tasks[r][i] EXCEPT
                        !.pc = "read_latest",
                        !.last_record =
                            GetTradesSummaryByLoginSync(summaries, tasks[r][i].login)])
    /\ UNCHANGED <<known, trades, summaries>>

\* a read of the last summary row that takes the row out of the table
ReadLastRecordConsuming(r, i) ==
    /\ Running(r)
    /\ i \in 1..Len(tasks[r])
    /\ tasks[r][i].pc = "queued"
    /\ \A j \in 1..(i - 1) : tasks[r][j].pc # "queued"
    /\ Cardinality(InProgress(r)) < run[r].max_workers
    /\ SetTask(r, i, [tasks[r][i] EXCEPT
                        !.pc = "read_latest",
                        !.last_record =
                            GetTradesSummaryByLoginSync(summaries, tasks[r][i].login)])
    /\ summaries' = summaries \ GetTradesSummaryByLoginSync(summaries, tasks[r][i].login)
    /\ UNCHANGED <<known, trades>>

\* a worker takes the next queued future and reads the last summary row
ReadLastRecord(r, i) ==
    /\ Running(r)
    /\ i \in 1..Len(tasks[r])
    /\ tasks[r][i].pc = "queued"
    /\ \A j \in 1..(i - 1) : tasks[r][j].pc # "queued"
    /\ Cardinality(InProgress(r)) < run[r].max_workers
    /\ SetTask(r, i, [tasks[r][i] EXCEPT
                        !.pc = "read_latest",
                        !.last_record =
                            GetTradesSummaryByLoginSync(summaries, tasks[r][i].login)])
    /\ UNCHANGED <<known, trades, summaries>>

ReadLatestTrade(r, i) ==
    /\ i \in 1..Len(tasks[r])
    /\ tasks[r][i].pc = "read_latest"
    /\ SetTask(r, i, [tasks[r][i] EXCEPT
                        !.pc = "read_count",
                        !.latest = MostRecentTradeTimestamp(trades[tasks[r][i].login])])
    /\ UNCHANGED <<known, trades, summaries>>

\* a pipeline that aggregates whatever the decision
CountAndDecideThenProcess(r, i) ==
    /\ i \in 1..Len(tasks[r])
    /\ tasks[r][i].pc = "read_count"
    /\ LET t == tasks[r][i]
           n == CountTrades(trades[t.login])
           d == DetermineAnalysisStrategy(t.last_record, t.latest, n)
       IN SetTask(r, i, [t EXCEPT !.info = d, !.latest = NoTime,
                                  !.read_rows = n,
                                  !.last_record = IF d.strategy = "resume" THEN @ ELSE {},
                                  !.pc = "process"])
    /\ UNCHANGED <<known, trades, summaries>>

\* count the rows, decide; a skip decision returns at once
CountAndDecide(r, i) ==
    /\ i \in 1..Len(tasks[r])
    /\ tasks[r][i].pc = "read_count"
    /\ LET t == tasks[r][i]
           n == CountTrades(trades[t.login])
           d == DetermineAnalysisStrategy(t.last_record, t.latest, n)
       IN SetTask(r, i, [t EXCEPT !.info = d, !.latest = NoTime,
                                  !.read_rows = n,
                                  !.last_record = IF d.strategy = "resume" THEN @ ELSE {},
                                  !.pc = IF d.strategy = "skip" THEN "returned"
                                         ELSE "process"])
    /\ UNCHANGED <<known, trades, summaries>>

\* the aggregator state of the decision
StateOf(t) ==
    IF t.info.strategy = "resume"
    THEN ResumeState(t.info.period_seconds, CHOOSE q \in t.last_record : TRUE)
    ELSE FreshState

\* _process_from_scratch / _process_resume up to collect()
ProcessTrades(r, i) ==
    /\ i \in 1..Len(tasks[r])
    /\ tasks[r][i].pc = "process"
    /\ LET t == tasks[r][i]
           log == trades[t.login]
           out == Aggregate(t.login, log, StateOf(t))
       IN IF t.info.use_batch_strategy
          THEN SetTask(r, i, [t EXCEPT !.pc = "returned", !.frame_built = TRUE,
                                       !.last_record = {}])
          ELSE SetTask(r, i, [t EXCEPT !.pc = IF out = <<>> THEN "returned" ELSE "insert",
                                       !.frame_built = TRUE,
                                       !.last_record = {},
                                       !.read_rows = CountTrades(log),
                                       !.batch = out])
    /\ UNCHANGED <<known, trades, summaries>>

\* a worker that swallows the exception of a rejected insert
InsertBatchSwallow(r, i, io_ok) ==
    /\ i \in 1..Len(tasks[r])
    /\ tasks[r][i].pc = "insert"
    /\ LET res == InsertRecordsSync(summaries, tasks[r][i].batch, io_ok)
       IN /\ summaries' = res.table
          /\ SetTask(r, i, [tasks[r][i] EXCEPT
                              !.pc = "returned",
                              !.batch = IF res.ok THEN <<>> ELSE @])
    /\ UNCHANGED <<known, trades>>

\* _process_trades_summary_records on a non-empty frame; io_ok is whether the
\* database accepts the transaction
InsertBatch(r, i, io_ok) ==
    /\ i \in 1..Len(tasks[r])
    /\ tasks[r][i].pc = "insert"
    /\ LET res == InsertRecordsSync(summaries, tasks[r][i].batch, io_ok)
       IN /\ summaries' = res.table
          /\ SetTask(r, i, [tasks[r][i] EXCEPT
                              !.pc = IF res.ok THEN "returned" ELSE "raised",
                              !.batch = IF res.ok THEN <<>> ELSE @])
    /\ UNCHANGED <<known, trades>>

\* a repository or trade-source read raises
ReadFails(r, i) ==
    /\ i \in 1..Len(tasks[r])
    /\ \/ tasks[r][i].pc \in {"read_latest", "read_count"}
       \/ /\ tasks[r][i].pc = "process"
          /\ ~tasks[r][i].info.use_batch_strategy
    /\ SetTask(r, i, [tasks[r][i] EXCEPT !.pc = "raised", !.latest = NoTime,
                                          !.last_record = {}])
    /\ UNCHANGED <<known, trades, summaries>>

\* create_rolling_window_lazy_frame returns None: the task returns normally
FrameFails(r, i) ==
    /\ i \in 1..Len(tasks[r])
    /\ tasks[r][i].pc = "process"
    /\ SetTask(r, i, [tasks[r][i] EXCEPT !.pc = "returned", !.last_record = {}])
    /\ UNCHANGED <<known, trades, summaries>>

(***************************************************************************)
(* Specifications                                                          *)
(***************************************************************************)
NoRunActive == \A r \in RunIds : ~Running(r)

TradeArrives(A) ==
    \E a \in A, t \in NewTrades, c \in {1, BlockCopies} : AppendTrade(a, t, c)

WorkerStep ==
    \E r \in RunIds : \E i \in 1..Len(tasks[r]) :
        \/ ReadLastRecord(r, i)
        \/ ReadLatestTrade(r, i)
        \/ CountAndDecide(r, i)
        \/ ProcessTrades(r, i)
        \/ InsertBatch(r, i, TRUE)

WorkerFault ==
    \E r \in RunIds : \E i \in 1..Len(tasks[r]) :
        \/ ReadFails(r, i)
        \/ FrameFails(r, i)
        \/ InsertBatch(r, i, FALSE)

OrchestratorStep == \E r \in RunIds : Collect(r) \/ ReturnStats(r)

\* orchestrator calls one after another, each on a list given by the caller
StartSequential ==
    /\ NoRunActive
    /\ \E w \in 1..MaxWorkers, l \in AccountLists : StartRunWith(1, l, w)

Next ==
    \/ TradeArrives(TradingLogins)
    \/ WorkerStep
    \/ WorkerFault
    \/ OrchestratorStep
    \/ StartSequential

Spec == Init /\ [][Next]_vars

\* a pipeline takes its next step, by going on or by raising
PipelineStep == WorkerFault \/ WorkerStep

\* the same calls when every thread keeps running: a pipeline that can be
\* taken up or continued eventually finishes, by returning or by raising, and
\* the calling thread eventually takes the next finished future or leaves
\* the loop
SpecLive == Spec /\ WF_vars(PipelineStep) /\ WF_vars(OrchestratorStep)

\* a call may begin while another is in flight; both take the same account
StartOverlapping == \E r \in RunIds : StartRunWith(r, <<1>>, 1)

NextOverlap ==
    \/ TradeArrives({1})
    \/ WorkerStep
    \/ WorkerFault
    \/ OrchestratorStep
    \/ StartOverlapping

SpecOverlap == Init /\ [][NextOverlap]_vars

\* the scheduled job: account_logins = None over an account source of any
\* size, the trade source at rest, the pool reduced to one worker
FirstTrade == CHOOSE t \in NewTrades : t.closed_at = 0

InitAll ==
    /\ known \in {[i \in 1..n |-> i] : n \in 0..MaxKnown}
    /\ trades \in {EmptySource,
                   [EmptySource EXCEPT ![1] =
                       <<FirstTrade @@ [identifier |-> 1, copies |-> 1]>>]}
    /\ summaries = {}
    /\ run = [r \in RunIds |-> IdleRun]
    /\ tasks = [r \in RunIds |-> <<>>]

StartScheduled ==
    /\ NoRunActive
    /\ StartRunAll(1, 1) \/ AccountSourceFails(1)

NextAll ==
    \/ WorkerStep
    \/ OrchestratorStep
    \/ StartScheduled

SpecAll == InitAll /\ [][NextAll]_vars

\* the engine on one account: calls one after another on login 1, over a
\* longer stretch of time
StartOne == NoRunActive /\ StartRunWith(1, <<1>>, 1)

TradeArrivesOne ==
    \E t \in TradesAt(TimesOne), c \in {1, BlockCopies} : AppendTrade(1, t, c)

NextOne ==
    \/ TradeArrivesOne
    \/ WorkerStep
    \/ WorkerFault
    \/ OrchestratorStep
    \/ StartOne

SpecOne == Init /\ [][NextOne]_vars

\* the engine on one account fed with trades of every kind, without faults;
\* the trade held for a minute closes on window starts, the longer one in the
\* middle of a window, after a trade that was opened later
IndicatorTrades ==
    {[opened_at |-> c - TimeStep, closed_at |-> c] @@ k :
        c \in Times, k \in {Winner, Loser}}
    \cup {[opened_at |-> c - ShortSeconds, closed_at |-> c] @@ Flat :
             c \in {t \in Times : t % PeriodSeconds = 0}}
    \cup {[opened_at |-> c - (ShortSeconds + TimeStep), closed_at |-> c] @@ Ruin :
             c \in {t \in Times : t % PeriodSeconds # 0}}

TradeArrivesInd == \E t \in IndicatorTrades : AppendTrade(1, t, 1)

NextInd ==
    \/ TradeArrivesInd
    \/ WorkerStep
    \/ OrchestratorStep
    \/ StartOne

SpecInd == Init /\ [][NextInd]_vars

\* the resolver over stores of any content: a summary row of any window and
\* a trade log that is empty or whose only trade closed at any time, before
\* that window included
StoredRow(c) ==
    Aggregate(1, <<[opened_at |-> c - TimeStep, closed_at |-> c] @@ Winner @@
                   [identifier |-> 1, copies |-> 1]>>, FreshState)[1]

InitResolver ==
    /\ known = [i \in 1..NumTradingLogins |-> i]
    /\ \/ trades = EmptySource
       \/ \E t \in NewTrades :
             trades = [EmptySource EXCEPT ![1] = <<t @@ [identifier |-> 1, copies |-> 1]>>]
    /\ \E c \in {x \in Times : x % PeriodSeconds = 0} : summaries = {StoredRow(c)}
    /\ run = [r \in RunIds |-> IdleRun]
    /\ tasks = [r \in RunIds |-> <<>>]

NextResolver ==
    \/ WorkerStep
    \/ OrchestratorStep
    \/ StartOne

SpecResolver == InitResolver /\ [][NextResolver]_vars

\* the worked example: one account and its three trades, in closed_at order
Scenario ==
    [login |-> 42,
     trades |-> <<[opened_at |-> 0, closed_at |-> 10,
                   profit |-> 200, swap |-> 0, commission |-> 0],
                  [opened_at |-> 0, closed_at |-> 20,
                   profit |-> 0 - 100, swap |-> 0, commission |-> 0],
                  [opened_at |-> 90, closed_at |-> 120,
                   profit |-> 50, swap |-> 0, commission |-> 0]>>]

InitScenario ==
    /\ known = <<Scenario.login>>
    /\ trades = [a \in Logins \cup {Scenario.login} |-> <<>>]
    /\ summaries = {}
    /\ run = [r \in RunIds |-> IdleRun]
    /\ tasks = [r \in RunIds |-> <<>>]

\* the next trade of the example reaches the trade store
ScenarioTradeArrives ==
    LET n == Len(trades[Scenario.login])
    IN /\ n < Len(Scenario.trades)
       /\ trades' = [trades EXCEPT ![Scenario.login] =
                       Append(@, Scenario.trades[n + 1] @@
                                 [identifier |-> n + 1, copies |-> 1])]
       /\ UNCHANGED <<known, summaries, run, tasks>>

StartScenario == NoRunActive /\ StartRunWith(1, <<Scenario.login>>, 1)

NextScenario ==
    \/ ScenarioTradeArrives
    \/ WorkerStep
    \/ OrchestratorStep
    \/ StartScenario

SpecScenario == InitScenario /\ [][NextScenario]_vars

(***************************************************************************)
(* Properties                                                              *)
(***************************************************************************)
TaskIds(r) == 1..Len(tasks[r])

\* the persisted rows of an account in window order
TableSeq(a) ==
    LET mine == RecordsOf(summaries, a)
        at(c) == CHOOSE p \in mine : p.closed_at = c
        order == SortedSeq({p.closed_at : p \in mine})
    IN [k \in 1..Len(order) |-> at(order[k])]

\* the decision table of the resolver, by presence of its two inputs
StrategyTable(last_record, latest) ==
    LET last == CHOOSE q \in last_record : TRUE
    IN CASE last_record = {} /\ latest = NoTime -> "skip"
         [] last_record = {} /\ latest # NoTime -> "from_scratch"
         [] last_record # {} /\ latest = NoTime -> "skip"
         [] last_record # {} /\ latest # NoTime /\ latest - last.closed_at <= 60 -> "skip"
         [] last_record # {} /\ latest # NoTime /\ latest - last.closed_at > 60 -> "resume"

\* C1: whenever a task decides, its strategy is the one the decision table
\* gives for the last record and the latest trade timestamp it read
C1_DecisionTable ==
    [][\A r \in RunIds : \A i \in TaskIds(r) :
          /\ tasks[r][i].pc = "read_count"
          /\ i \in 1..Len(tasks'[r])
          /\ tasks'[r][i].pc \in {"returned", "process"}
          => /\ tasks'[r][i].info.strategy \in {"skip", "from_scratch", "resume"}
             /\ tasks'[r][i].info.strategy =
                    StrategyTable(tasks[r][i].last_record, tasks[r][i].latest)]_vars

\* a task decided to resume
C1_Witness ==
    \E r \in RunIds : \E i \in TaskIds(r) :
        tasks[r][i].pc = "process" /\ tasks[r][i].info.strategy = "resume"

\* what the resolver would answer now
ResolveNow(a) ==
    DetermineAnalysisStrategy(GetTradesSummaryByLoginSync(summaries, a),
                              MostRecentTradeTimestamp(trades[a]),
                              CountTrades(trades[a]))

\* a from_scratch or resume task that returned normally with its frame built,
\* and no trade has arrived since it read the source
CompletedQuiet(t) ==
    /\ t.pc = "returned"
    /\ t.info.strategy \in {"from_scratch", "resume"}
    /\ t.frame_built
    /\ CountTrades(trades[t.login]) = t.read_rows

\* C2: after a from_scratch or resume run that completed without error, with
\* no new trades, the resolver answers skip, whatever the trade count
C2_Idempotence ==
    \A r \in RunIds : \A i \in TaskIds(r) :
        CompletedQuiet(tasks[r][i]) => ResolveNow(tasks[r][i].login).strategy = "skip"

\* the same for accounts below the batch threshold
IdempotenceBelowThreshold ==
    \A r \in RunIds : \A i \in TaskIds(r) :
        CompletedQuiet(tasks[r][i]) /\ ~tasks[r][i].info.use_batch_strategy
        => ResolveNow(tasks[r][i].login).strategy = "skip"

Boundaries == {b \in 0..(MaxTimeOne + PeriodSeconds) : b % PeriodSeconds = 0}

Project(recs) ==
    [k \in 1..Len(recs) |->
        <<recs[k].lower_boundary, recs[k].upper_boundary,
          recs[k].last_equity, recs[k].last_peak>>]

SeedFrom(last) == ResumeState(last.upper_boundary - last.lower_boundary, last)

\* C3: for every log and every window boundary that splits it, the windows,
\* equities and peaks of one from-scratch pass equal those of a from-scratch
\* pass over the prefix followed by a resume seeded from its last record
C3_Resumability ==
    \A a \in TradingLogins : \A b \in Boundaries :
        LET log == trades[a]
            pre == SelectSeq(log, LAMBDA t : t.closed_at < b)
            first == Aggregate(a, pre, FreshState)
        IN first # <<>> =>
              Project(Aggregate(a, log, FreshState)) =
                 Project(first) \o Project(Aggregate(a, log, SeedFrom(first[Len(first)])))

\* a resume run has added its batch and the table equals one from-scratch pass
C3_Witness ==
    \E r \in RunIds : \E i \in TaskIds(r) :
        /\ tasks[r][i].pc = "returned"
        /\ tasks[r][i].info.strategy = "resume"
        /\ tasks[r][i].frame_built
        /\ Len(TableSeq(tasks[r][i].login)) >= 2
        /\ Project(TableSeq(tasks[r][i].login)) =
              Project(Aggregate(tasks[r][i].login, trades[tasks[r][i].login], FreshState))
        /\ \E p \in summaries : p.last_peak > p.last_equity

\* no two persisted rows share a key, no two windows of an account overlap
DistinctKeys ==
    \A p, q \in summaries :
        p # q /\ p.trading_account_login = q.trading_account_login
        => /\ p.closed_at # q.closed_at
           /\ \/ p.upper_boundary <= q.lower_boundary
              \/ q.upper_boundary <= p.lower_boundary

\* C4: with calls one after another and trades appended in closed_at order,
\* persisted keys are distinct, persisted windows do not overlap, and no
\* batch about to be inserted holds a key that is already persisted
C4_UniqueWindows ==
    /\ DistinctKeys
    /\ \A r \in RunIds : \A i \in TaskIds(r) :
          tasks[r][i].pc = "insert" => ~PrimaryKeyViolated(summaries, tasks[r][i].batch)

\* a resume batch is about to be added to a table that has rows of the account
C4_Witness ==
    \E r \in RunIds : \E i \in TaskIds(r) :
        /\ tasks[r][i].pc = "insert"
        /\ tasks[r][i].info.strategy = "resume"
        /\ Len(tasks[r][i].batch) >= 2
        /\ RecordsOf(summaries, tasks[r][i].login) # {}

\* C5: a batch read for insertion holds only trades closed at or after the
\* start of the window following each persisted one, and no trade is a source
\* of two persisted rows
C5_NoReprocessing ==
    /\ \A p, q \in summaries :
          p # q /\ p.trading_account_login = q.trading_account_login
          => p.src_rows \cap q.src_rows = {}
    /\ \A r \in RunIds : \A i \in TaskIds(r) :
          tasks[r][i].pc = "insert" =>
             \A k \in 1..Len(tasks[r][i].batch) :
             \A id \in tasks[r][i].batch[k].src_rows :
             \A p \in RecordsOf(summaries, tasks[r][i].login) :
                /\ id \notin p.src_rows
                /\ trades[tasks[r][i].login][id].closed_at
                      >= p.closed_at + (p.upper_boundary - p.lower_boundary)

\* a resume run has persisted its batch while a trade that arrived inside an
\* already summarized window stays out of every row
C5_Witness ==
    \E r \in RunIds : \E i \in TaskIds(r) :
        /\ tasks[r][i].pc = "returned"
        /\ tasks[r][i].info.strategy = "resume"
        /\ Cardinality(RecordsOf(summaries, tasks[r][i].login)) >= 2
        /\ \E id \in 1..Len(trades[tasks[r][i].login]) :
              \A p \in summaries : id \notin p.src_rows

\* C6: a step changes the rows of an account only by adding the whole batch
\* of one task of that account, and a failed insert changes no row
C6_AtomicInsert ==
    [][/\ \A a \in TradingLogins :
             \/ RecordsOf(summaries', a) = RecordsOf(summaries, a)
             \/ \E r \in RunIds : \E i \in TaskIds(r) :
                   /\ tasks[r][i].pc = "insert"
                   /\ tasks[r][i].login = a
                   /\ tasks'[r][i].pc = "returned"
                   /\ RecordsOf(summaries', a) =
                         RecordsOf(summaries, a) \cup Range(tasks[r][i].batch)
       /\ \A r \in RunIds : \A i \in TaskIds(r) :
             /\ tasks[r][i].pc = "insert"
             /\ i \in 1..Len(tasks'[r])
             /\ tasks'[r][i].pc = "raised"
             => summaries' = summaries]_vars

\* an insert of two rows failed and none of them is persisted
C6_Witness ==
    \E r \in RunIds : \E i \in TaskIds(r) :
        /\ tasks[r][i].pc = "raised"
        /\ Len(tasks[r][i].batch) >= 2
        /\ Range(tasks[r][i].batch) \cap summaries = {}

\* the futures as_completed has yielded
Collected(r) ==
    {i \in TaskIds(r) : Finished(tasks[r][i]) /\ \A k \in 1..Len(run[r].done) : run[r].done[k] # i}

\* C7: a task that raises leaves every sibling task and the call running; when
\* the loop takes a raised future it adds one to failed and one message naming
\* the account, and nothing else; the call returns only after every submitted
\* account has finished, and it never raises
C7_FailureIsolation ==
    [][\A r \in RunIds :
          /\ \A i \in TaskIds(r) :
                /\ Running(r)
                /\ tasks[r][i].pc # "raised"
                /\ i \in 1..Len(tasks'[r])
                /\ tasks'[r][i].pc = "raised"
                => /\ run'[r].status = "running"
                   /\ \A j \in TaskIds(r) : j # i => tasks'[r][j] = tasks[r][j]
          /\ /\ Running(r)
             /\ run[r].done # <<>>
             /\ run'[r].done = Tail(run[r].done)
             /\ tasks[r][Head(run[r].done)].pc = "raised"
             => /\ run'[r].status = "running"
                /\ run'[r].failed = run[r].failed + 1
                /\ run'[r].errors =
                      Append(run[r].errors, tasks[r][Head(run[r].done)].login)
                /\ run'[r].processed = run[r].processed
                /\ run'[r].skipped = run[r].skipped
                /\ tasks' = tasks
          /\ Running(r) => run'[r].status \in {"running", "returned"}
          /\ Running(r) /\ run'[r].status = "returned"
             => /\ \A i \in TaskIds(r) : Finished(tasks[r][i])
                /\ Collected(r) = TaskIds(r)]_vars

\* a call over two accounts returned: one account failed, the other was processed
C7_Witness ==
    \E r \in RunIds :
        /\ run[r].status = "returned"
        /\ Len(run[r].account_logins) = 2
        /\ run[r].failed = 1
        /\ run[r].processed = 1
        /\ Len(run[r].errors) = 1
        /\ RecordsOf(summaries, 1) = {} /\ RecordsOf(summaries, 2) # {}

\* C8: the counters count the yielded futures by outcome - skipped: returned
\* with a skip decision, processed: returned with from_scratch or resume,
\* failed: raised, one error message each - and on return they add up to the
\* number of submitted accounts
C8_Accounting ==
    \A r \in RunIds :
        /\ Running(r) =>
              /\ run[r].skipped =
                    Cardinality({i \in Collected(r) :
                        tasks[r][i].pc = "returned" /\ tasks[r][i].info.strategy = "skip"})
              /\ run[r].processed =
                    Cardinality({i \in Collected(r) :
                        /\ tasks[r][i].pc = "returned"
                        /\ tasks[r][i].info.strategy \in {"from_scratch", "resume"}})
              /\ run[r].failed =
                    Cardinality({i \in Collected(r) : tasks[r][i].pc = "raised"})
        /\ run[r].status \in {"running", "returned"} =>
              /\ Len(run[r].errors) = run[r].failed
              /\ run[r].status = "returned" =>
                    run[r].processed + run[r].skipped + run[r].failed
                       = Len(run[r].account_logins)

\* a call over two accounts returned with one skipped and one failed
C8_Witness ==
    \E r \in RunIds :
        /\ run[r].status = "returned"
        /\ Len(run[r].account_logins) = 2
        /\ run[r].skipped = 1
        /\ run[r].failed = 1

\* C9: a call with account_logins omitted submits every login of the account
\* source
C9_AllAccountsSubmitted ==
    \A r \in RunIds :
        run[r].from_all /\ run[r].status \in {"running", "returned"}
        => run[r].account_logins = known

\* the aggregator state a task takes from a seed: no row, or a persisted row
SeedState(seed) ==
    IF seed = {} THEN FreshState ELSE SeedFrom(CHOOSE q \in seed : TRUE)

\* the row is one of the rows a single call produces from the seed over a
\* prefix of the log, and that call's batch is in the table whole, directly
\* after the seed
SingleRunRecord(p) ==
    LET a == p.trading_account_login
        mine == RecordsOf(summaries, a)
    IN \E n \in 0..Len(trades[a]) :
       \E seed \in {{}} \cup {{q} : q \in mine} :
          LET out == Aggregate(a, Prefix(trades[a], n), SeedState(seed))
              after == {q \in mine : \A z \in seed : q.closed_at > z.closed_at}
          IN /\ p \in Range(out)
             /\ Range(out) \subseteq mine
             /\ \A q \in after :
                   q.closed_at <= out[Len(out)].closed_at => q \in Range(out)

\* C10: with overlapping calls on one account the table never holds two rows
\* with one key, never part of a batch, and every row is the row of a single
\* uninterrupted call
C10_OverlapSafe ==
    /\ DistinctKeys
    /\ \A p \in summaries : SingleRunRecord(p)

\* two calls are in flight, one has persisted its batch and the other's batch
\* was rejected for its key
C10_Witness ==
    /\ \A r \in RunIds : Running(r)
    /\ \E r \in RunIds : \E i \in TaskIds(r) :
          /\ tasks[r][i].pc = "raised"
          /\ Len(tasks[r][i].batch) >= 2
          /\ PrimaryKeyViolated(summaries, tasks[r][i].batch)
          /\ Range(tasks[r][i].batch) \cap summaries = {}

\* a task whose insert was rejected for a duplicate key
DuplicateRaised(t) ==
    /\ t.pc = "raised"
    /\ t.batch # <<>>
    /\ PrimaryKeyViolated(summaries, t.batch)

\* C11: an insert that meets a persisted key ends the account's task at once:
\* the table is left as it was, the task raises, it never runs again within
\* the call, and the loop counts it as failed
C11_DuplicateKeyFatal ==
    [][\A r \in RunIds : \A i \in TaskIds(r) :
          /\ /\ tasks[r][i].pc = "insert"
             /\ PrimaryKeyViolated(summaries, tasks[r][i].batch)
             /\ i \in 1..Len(tasks'[r])
             /\ tasks'[r][i] # tasks[r][i]
             => /\ tasks'[r][i].pc = "raised"
                /\ summaries' = summaries
          /\ /\ DuplicateRaised(tasks[r][i])
             /\ i \in 1..Len(tasks'[r])
             => tasks'[r][i] = tasks[r][i]
          /\ /\ DuplicateRaised(tasks[r][i])
             /\ Running(r)
             /\ run[r].done # <<>>
             /\ Head(run[r].done) = i
             /\ run'[r].done = Tail(run[r].done)
             => /\ run'[r].failed = run[r].failed + 1
                /\ run'[r].processed = run[r].processed
                /\ run'[r].skipped = run[r].skipped
                /\ Len(run'[r].errors) = Len(run[r].errors) + 1]_vars

\* a task rejected for a duplicate key has been counted as failed
C11_Witness ==
    \E r \in RunIds : \E i \in TaskIds(r) :
        /\ DuplicateRaised(tasks[r][i])
        /\ i \in Collected(r)
        /\ run[r].failed = 1
        /\ run[r].processed = 0

\* C12: the summary table only grows: every step, of a resolver read, a
\* worker, the orchestrator or the trade source, leaves every persisted row
\* in the table as it was
C12_AppendOnly ==
    [][/\ summaries \subseteq summaries'
       /\ \A p \in summaries : \A q \in summaries' : Key(p) = Key(q) => p = q]_vars

\* three rows were persisted by more than one call, and a later batch that
\* met their keys was turned away
C12_Witness ==
    /\ Cardinality(summaries) >= 3
    /\ \E r \in RunIds : \E i \in TaskIds(r) : DuplicateRaised(tasks[r][i])
    /\ \E r \in RunIds : \E i \in TaskIds(r) :
          tasks[r][i].pc = "returned" /\ tasks[r][i].info.strategy = "resume"

\* the rows of an account that no other row of the account follows
MostRecentRows(a) ==
    {p \in RecordsOf(summaries, a) :
        \A q \in RecordsOf(summaries, a) : q.closed_at <= p.closed_at}

\* C13: the row a task reads is the account's row with the greatest closed_at;
\* a resume decision carries period_seconds = _upper_boundary - _lower_boundary
\* of that row; and the batch of the resume run is what the aggregator yields
\* from equity = last_equity, peak = last_peak, resume point = closed_at
C13_ResumeSeeds ==
    [][\A r \in RunIds : \A i \in TaskIds(r) :
          LET t == tasks[r][i]
              last == CHOOSE q \in t.last_record : TRUE
          IN /\ /\ t.pc = "queued"
                /\ i \in 1..Len(tasks'[r])
                /\ tasks'[r][i].pc = "read_latest"
                => tasks'[r][i].last_record = MostRecentRows(t.login)
             /\ /\ t.pc = "read_count"
                /\ i \in 1..Len(tasks'[r])
                /\ tasks'[r][i].info.strategy = "resume"
                => /\ t.last_record # {}
                   /\ tasks'[r][i].last_record = t.last_record
                   /\ tasks'[r][i].info.period_seconds =
                         last.upper_boundary - last.lower_boundary
             /\ /\ t.pc = "process"
                /\ t.info.strategy = "resume"
                /\ i \in 1..Len(tasks'[r])
                /\ tasks'[r][i].pc \in {"insert", "returned"}
                /\ tasks'[r][i].frame_built
                /\ ~t.info.use_batch_strategy
                => tasks'[r][i].batch =
                      Aggregate(t.login, trades[t.login],
                                [equity |-> last.last_equity,
                                 peak |-> last.last_peak,
                                 resume_from |-> last.closed_at,
                                 period_seconds |-> last.upper_boundary
                                                      - last.lower_boundary])]_vars

\* a resume run seeded from the later of two persisted rows, whose peak lies
\* above its equity, is about to insert its batch
C13_Witness ==
    \E r \in RunIds : \E i \in TaskIds(r) :
        /\ tasks[r][i].pc = "insert"
        /\ tasks[r][i].info.strategy = "resume"
        /\ Cardinality(RecordsOf(summaries, tasks[r][i].login)) >= 2
        /\ \E p \in MostRecentRows(tasks[r][i].login) :
              /\ p.last_peak > p.last_equity
              /\ tasks[r][i].batch[1].closed_at > p.closed_at

\* the states the aggregator starts from: fresh, or resumed from a persisted row
StartStates(a) == {FreshState} \cup {SeedFrom(p) : p \in RecordsOf(summaries, a)}

MaxOf(S) == CHOOSE x \in S : \A y \in S : y <= x

C15_PeakMonotone ==
    /\ \A a \in TradingLogins :
          \A k \in 1..(Len(TableSeq(a)) - 1) :
             TableSeq(a)[k].last_peak <= TableSeq(a)[k + 1].last_peak
    /\ \A r \in RunIds : \A i \in TaskIds(r) :
          LET t == tasks[r][i]
          IN /\ t.pc = "process" /\ t.info.strategy = "resume" =>
                   LET st == StateOf(t)
                       rows == ResumeFilter(trades[t.login], st)
                   IN \A q \in t.last_record : \A n \in 1..Len(rows) :
                         /\ PeakAfter(rows, st.equity, st.peak, n) >= q.last_peak
                         /\ PeakAfter(rows, st.equity, st.peak, n)
                               >= PeakAfter(rows, st.equity, st.peak, n - 1)
             /\ t.pc = "insert" /\ t.info.strategy = "resume" =>
                   \A q \in MostRecentRows(t.login) : \A k \in 1..Len(t.batch) :
                      t.batch[k].last_peak >= q.last_peak

\* a run resumed below its peak has persisted a row whose equity is below the
\* peak it resumed from
C15_Witness ==
    \E r \in RunIds : \E i \in TaskIds(r) :
        /\ tasks[r][i].pc = "returned"
        /\ tasks[r][i].info.strategy = "resume"
        /\ Len(TableSeq(1)) >= 2
        /\ TableSeq(1)[1].last_peak > TableSeq(1)[1].last_equity
        /\ TableSeq(1)[2].last_equity < TableSeq(1)[1].last_peak
        /\ TableSeq(1)[2].last_equity > INITIAL_EQUITY

\* the trade lies in the half-open window of the row
InWindow(t, p) ==
    /\ p.upper_boundary = p.lower_boundary + PeriodSeconds
    /\ p.lower_boundary % PeriodSeconds = 0
    /\ p.lower_boundary <= t.closed_at
    /\ t.closed_at < p.upper_boundary
    /\ t.closed_at % PeriodSeconds = 0 => p.lower_boundary = t.closed_at

\* C16: of the rows the aggregator yields, from every start, each trade it
\* read is a source of exactly one, whose window [lower, lower + 60) holds
\* its closed_at, a closed_at on a boundary lying in the window that starts
\* there; the same holds of the persisted rows
C16_HalfOpenBuckets ==
    \A a \in TradingLogins :
        /\ \A st \in StartStates(a) :
              LET rows == ResumeFilter(trades[a], st)
                  out == Aggregate(a, trades[a], st)
              IN \A n \in 1..Len(rows) :
                    /\ Cardinality({k \in 1..Len(out) :
                                       rows[n].identifier \in out[k].src_rows}) = 1
                    /\ \A k \in 1..Len(out) :
                          rows[n].identifier \in out[k].src_rows
                          <=> /\ out[k].lower_boundary <= rows[n].closed_at
                              /\ rows[n].closed_at < out[k].upper_boundary
                    /\ \A k \in 1..Len(out) :
                          rows[n].identifier \in out[k].src_rows
                          => InWindow(rows[n], out[k])
        /\ \A p \in RecordsOf(summaries, a) : \A id \in p.src_rows :
              InWindow(trades[a][id], p)

\* persisted: a trade closed on the boundary 00:01:00 in the window that
\* starts there, and a trade closed at 00:00:30 in the window before it
C16_Witness ==
    \E p, q \in RecordsOf(summaries, 1) :
        /\ p.lower_boundary = 0
        /\ q.lower_boundary = PeriodSeconds
        /\ \E id \in p.src_rows : trades[1][id].closed_at = TimeStep
        /\ \E id \in q.src_rows : trades[1][id].closed_at = PeriodSeconds

\* from every start the aggregator yields one row for each window that holds
\* a trade it read and none for any other window, in strictly ascending
\* window order; a batch waiting to be inserted is such a sequence
AscendingNonEmptyWindows ==
    /\ \A a \in TradingLogins : \A st \in StartStates(a) :
          LET rows == ResumeFilter(trades[a], st)
              out == Aggregate(a, trades[a], st)
          IN /\ \A k \in 1..Len(out) : out[k].lower_boundary \in Boundaries
             /\ \A w \in Boundaries :
                   Cardinality({k \in 1..Len(out) : out[k].lower_boundary = w})
                      = IF \E n \in 1..Len(rows) :
                              w <= rows[n].closed_at /\ rows[n].closed_at < w + PeriodSeconds
                        THEN 1 ELSE 0
             /\ \A k \in 1..(Len(out) - 1) : out[k].closed_at < out[k + 1].closed_at
    /\ \A r \in RunIds : \A i \in TaskIds(r) :
          tasks[r][i].pc \in {"insert", "raised"} =>
             /\ \A k \in 1..Len(tasks[r][i].batch) :
                   /\ tasks[r][i].batch[k].src_rows # {}
                   /\ tasks[r][i].batch[k].trading_account_login = tasks[r][i].login
             /\ \A k \in 1..(Len(tasks[r][i].batch) - 1) :
                   tasks[r][i].batch[k].closed_at < tasks[r][i].batch[k + 1].closed_at

\* C17: the aggregator yields exactly one row per window that holds a trade,
\* none for an empty window, in strictly ascending window order, and the
\* rows of an account are inserted in that order as one batch, in one step
C17_OneRowPerWindow ==
    [][/\ AscendingNonEmptyWindows
       /\ \A r \in RunIds : \A i \in TaskIds(r) :
             /\ tasks[r][i].pc = "insert"
             /\ i \in 1..Len(tasks'[r])
             /\ tasks'[r][i].pc = "returned"
             => /\ summaries' = summaries \cup Range(tasks[r][i].batch)
                /\ Cardinality(summaries') =
                      Cardinality(summaries) + Len(tasks[r][i].batch)]_vars

\* a batch of two rows around an empty window is waiting to be inserted
C17_Witness ==
    \E r \in RunIds : \E i \in TaskIds(r) :
        /\ tasks[r][i].pc = "insert"
        /\ Len(tasks[r][i].batch) = 2
        /\ tasks[r][i].batch[2].lower_boundary
              > tasks[r][i].batch[1].upper_boundary
        /\ Cardinality(tasks[r][i].batch[1].src_rows) = 2

\* C18: of two persisted rows of an account that follow one another in window
\* order, the upper boundary of the first is the lower boundary of the second
C18_Contiguous ==
    \A a \in TradingLogins :
        \A k \in 1..(Len(TableSeq(a)) - 1) :
           TableSeq(a)[k].upper_boundary = TableSeq(a)[k + 1].lower_boundary

\* C18 as amended: of two persisted rows of an account that follow one
\* another in window order, the upper boundary of the first is at most the
\* lower boundary of the second, a whole number of periods lies between
\* them, and no trade of the account is closed in between
C18_OrderedWindows ==
    \A a \in TradingLogins :
        \A k \in 1..(Len(TableSeq(a)) - 1) :
           LET p == TableSeq(a)[k]
               q == TableSeq(a)[k + 1]
           IN /\ p.upper_boundary <= q.lower_boundary
              /\ (q.lower_boundary - p.upper_boundary) % PeriodSeconds = 0
              /\ \A n \in 1..Len(trades[a]) :
                    ~ /\ p.upper_boundary <= trades[a][n].closed_at
                      /\ trades[a][n].closed_at < q.lower_boundary

\* two rows are persisted around a window in which no trade was closed
C18_Witness ==
    \E a \in TradingLogins :
        /\ Len(TableSeq(a)) = 2
        /\ TableSeq(a)[2].lower_boundary = TableSeq(a)[1].upper_boundary + PeriodSeconds
        /\ Len(trades[a]) = 3

\* a percentage in the unit of max_relative_drawdown
Percent(n) == n * ((10 ^ DrawdownPlaces) \div 100)

\* the rows the engine has produced: persisted, or in a batch of a task
ProducedRows ==
    summaries
    \cup UNION {UNION {Range(tasks[r][i].batch) : i \in TaskIds(r)} : r \in RunIds}

\* C19: the max_relative_drawdown of every summary row the engine produces,
\* whatever the trades and whatever equity and peak it started from
\* (cumulative losses above the starting equity included), is a percentage
\* between 0 and 100
C19_DrawdownRange ==
    \A p \in ProducedRows :
        /\ p.max_relative_drawdown >= Percent(0)
        /\ p.max_relative_drawdown <= Percent(100)

\* the same for accounts none of whose trades loses the initial equity
DrawdownRangeWithoutRuin ==
    \A p \in ProducedRows :
        (\A n \in 1..Len(trades[p.trading_account_login]) :
            trades[p.trading_account_login][n].profit > 0 - INITIAL_EQUITY)
        => /\ p.max_relative_drawdown >= Percent(0)
           /\ p.max_relative_drawdown <= Percent(100)

\* the sum of vals[x] over the trades x of the set ids
TradeSum(vals, ids) ==
    LET F[S \in SUBSET ids] ==
            IF S = {} THEN 0
            ELSE LET x == CHOOSE y \in S : TRUE
                 IN vals[x] + F[S \ {x}]
    IN F[ids]

\* the profits and the losses of the trades of the window of row p
WonIn(p) ==
    LET log == trades[p.trading_account_login]
    IN TradeSum([x \in 1..Len(log) |->
                    IF log[x].profit > 0 THEN log[x].copies * log[x].profit ELSE 0],
                p.src_rows)

LostIn(p) ==
    LET log == trades[p.trading_account_login]
    IN TradeSum([x \in 1..Len(log) |->
                    IF log[x].profit < 0 THEN log[x].copies * (0 - log[x].profit) ELSE 0],
                p.src_rows)

\* C20: the profit factor of every row the engine produces is 0 exactly when
\* the gross profit or the gross loss of its window is 0, and otherwise the
\* gross profit over the gross loss, above 0; its denominator is never 0 and
\* it is never below 0
C20_ProfitFactor ==
    \A p \in ProducedRows :
        /\ p.profit_factor.den > 0
        /\ p.profit_factor.num >= 0
        /\ p.profit_factor.num = 0 <=> (WonIn(p) = 0 \/ LostIn(p) = 0)
        /\ WonIn(p) # 0 /\ LostIn(p) # 0 =>
              /\ p.profit_factor.num * LostIn(p) = WonIn(p) * p.profit_factor.den
              /\ p.profit_factor.num > 0

\* persisted: a window with a winning and a losing trade and profit factor 2,
\* and a window with a winning trade only and profit factor 0
C20_Witness ==
    \E p, q \in summaries :
        /\ WonIn(p) > 0 /\ LostIn(p) > 0
        /\ p.profit_factor.num = 2 * p.profit_factor.den
        /\ WonIn(q) > 0 /\ LostIn(q) = 0
        /\ q.profit_factor.num = 0

\* the trades of the window of row p that were open for less than a minute
ShortIn(p) ==
    LET log == trades[p.trading_account_login]
    IN {x \in p.src_rows : log[x].closed_at - log[x].opened_at < ShortSeconds}

\* the number of trades of the set ids, block entries counted in full
TradeCount(log, ids) == TradeSum([x \in 1..Len(log) |-> log[x].copies], ids)

\* the number of distinct opening times of the trades of the set ids
OpeningTimes(log, ids) == Cardinality({log[x].opened_at : x \in ids})

\* C21: the layered-trade count of every row the engine produces is the
\* number of trades of its window open for less than 60 seconds minus the
\* number of distinct opening times among those trades, floored at 0; it is
\* 0 when the window has no such trade, and it is never negative
C21_LayeredTradeCount ==
    \A p \in ProducedRows :
        LET log == trades[p.trading_account_login]
            diff == TradeCount(log, ShortIn(p)) - OpeningTimes(log, ShortIn(p))
        IN /\ p.layered_trade_count = Max2(0, diff)
           /\ ShortIn(p) = {} => p.layered_trade_count = 0
           /\ p.layered_trade_count >= 0

\* persisted: a window of two short trades opened at the same time and a
\* longer trade, with layered count 1
C21_Witness ==
    \E p \in summaries :
        /\ Cardinality(ShortIn(p)) = 2 /\ p.src_rows # ShortIn(p)
        /\ p.layered_trade_count = 1

\* the winning trades of the window of row p
WinsIn(p) ==
    LET log == trades[p.trading_account_login]
    IN {x \in p.src_rows : log[x].profit > 0}

\* C22: the win ratio of every row the engine produces is the number of
\* trades of its window with profit above 0 over the number of all trades of
\* the window, a value from 0 to 1 whose divisor is never 0; a trade with
\* profit exactly 0 is in the divisor and is not a win
C22_WinRatio ==
    \A p \in ProducedRows :
        LET log == trades[p.trading_account_login]
        IN /\ p.win_ratio.num = TradeCount(log, WinsIn(p))
           /\ p.win_ratio.den = TradeCount(log, p.src_rows)
           /\ p.win_ratio.den > 0
           /\ 0 <= p.win_ratio.num /\ p.win_ratio.num <= p.win_ratio.den
           /\ (\E x \in p.src_rows : log[x].profit = 0) =>
                  p.win_ratio.num < p.win_ratio.den

\* persisted: a window of a winning trade, a losing trade and a trade with
\* profit 0, with win ratio 1/3
C22_Witness ==
    \E p \in summaries :
        LET log == trades[p.trading_account_login]
        IN /\ \E x, y, z \in p.src_rows :
                  log[x].profit > 0 /\ log[y].profit < 0 /\ log[z].profit = 0
           /\ p.win_ratio = [num |-> 1, den |-> 3]

\* C23: in the worked example a first pass over the three trades yields
\* exactly two rows and none for the minute without a trade: the row of
\* 00:00 with hft 2, win ratio 1/2, profit factor 2, layered count 1, last
\* trade opened at 00:00:00, equity 100100 and peak 100200, and the row of
\* 00:02 with hft 1, win ratio 1, profit factor 0, layered count 0, last
\* trade opened at 00:01:30, equity 100150 and peak 100200
C23_Scenario ==
    \A r \in RunIds : \A i \in TaskIds(r) :
        LET t == tasks[r][i]
        IN (t.login = Scenario.login /\ t.info.strategy = "from_scratch"
            /\ t.pc = "insert" /\ t.read_rows = Len(Scenario.trades)) =>
           /\ Len(t.batch) = 2
           /\ \A k \in 1..Len(t.batch) : t.batch[k].closed_at # 60
           /\ LET p == t.batch[1]
              IN /\ p.closed_at = 0 /\ p.upper_boundary = 60
                 /\ p.hft = 2
                 /\ p.win_ratio.num * 2 = p.win_ratio.den
                 /\ p.profit_factor.num = 2 * p.profit_factor.den
                 /\ p.layered_trade_count = 1
                 /\ p.last_trade_at = 0
                 /\ p.last_equity = 100100
                 /\ p.last_peak = 100200
           /\ LET q == t.batch[2]
              IN /\ q.closed_at = 120 /\ q.upper_boundary = 180
                 /\ q.hft = 1
                 /\ q.win_ratio.num = q.win_ratio.den
                 /\ q.profit_factor.num = 0
                 /\ q.layered_trade_count = 0
                 /\ q.last_trade_at = 90
                 /\ q.last_equity = 100150
                 /\ q.last_peak = 100200

\* the first pass over the three trades has run and its two rows are the table
C23_Witness ==
    /\ Cardinality(summaries) = 2
    /\ \E p, q \in summaries :
          /\ p.trading_account_login = Scenario.login
          /\ p.src_rows = {1, 2} /\ q.src_rows = {3}
          /\ p.last_equity = 100100 /\ q.last_equity = 100150

\* the equity after trade j of a log read from trade first on, from base
EquityAt(log, first, base, j) ==
    base + TradeSum([x \in 1..Len(log) |-> log[x].copies * Net(log[x])], first..j)

\* C24: when a pipeline has aggregated, last_equity of each row is the equity
\* after the last trade, in closed_at order, of the row's window and
\* last_peak is the greatest of the starting peak and the equities up to that
\* trade; a from-scratch run starts from the initial equity, and a resume run
\* starts from exactly the last_equity and last_peak of the account's most
\* recent persisted row
C24_LastEquityAndPeak ==
    [][\A r \in RunIds : \A i \in TaskIds(r) :
          LET t == tasks[r][i]
              log == trades[t.login]
              out == tasks'[r][i].batch
              first == CHOOSE x \in out[1].src_rows : \A y \in out[1].src_rows : x <= y
              seed == IF t.info.strategy = "resume"
                      THEN LET q == CHOOSE q \in MostRecentRows(t.login) : TRUE
                           IN [equity |-> q.last_equity, peak |-> q.last_peak]
                      ELSE [equity |-> INITIAL_EQUITY, peak |-> INITIAL_EQUITY]
          IN /\ t.pc = "process"
             /\ i \in 1..Len(tasks'[r])
             /\ tasks'[r][i].pc = "insert"
             => /\ t.info.strategy = "resume" => t.last_record = MostRecentRows(t.login)
                /\ \A k \in 1..Len(out) :
                      LET final == MaxOf(out[k].src_rows)
                      IN /\ \A x \in out[k].src_rows :
                               log[x].closed_at <= log[final].closed_at
                         /\ out[k].last_equity = EquityAt(log, first, seed.equity, final)
                         /\ out[k].last_peak =
                               MaxOf({seed.peak}
                                     \cup {EquityAt(log, first, seed.equity, j) :
                                              j \in first..final}
                                     \cup {EquityAt(log, first, seed.equity, j - 1)
                                              + Net(log[j]) : j \in first..final})]_vars

\* a resume run that started below the peak of the row it resumed from is
\* about to insert a row of two trades whose last trade lifts the peak
C24_Witness ==
    \E r \in RunIds : \E i \in TaskIds(r) : \E q \in MostRecentRows(tasks[r][i].login) :
        LET t == tasks[r][i]
        IN /\ t.pc = "insert"
           /\ t.info.strategy = "resume"
           /\ q.last_peak > q.last_equity
           /\ Cardinality(t.batch[1].src_rows) = 2
           /\ t.batch[1].last_peak > q.last_peak
           /\ t.batch[1].last_equity = t.batch[1].last_peak

\* C25: the decision of a pipeline carries a batch flag exactly when it is
\* from_scratch or resume, and the flag is then true exactly when the account
\* has at least 1000 trades in all; a skip decision carries none and the
\* pipeline takes it as not batch
C25_BatchFlag ==
    [][\A r \in RunIds : \A i \in TaskIds(r) :
          LET t == tasks[r][i]
              log == trades[t.login]
              total == TradeCount(log, 1..Len(log))
          IN /\ t.pc = "read_count"
             /\ i \in 1..Len(tasks'[r])
             /\ tasks'[r][i].pc # "read_count"
             /\ tasks'[r][i].pc # "raised"
             => LET d == tasks'[r][i].info
                IN /\ d.strategy \in {"skip", "from_scratch", "resume"}
                   /\ d.has_use_batch_strategy <=> d.strategy \in {"from_scratch", "resume"}
                   /\ d.has_use_batch_strategy => (d.use_batch_strategy <=> total >= 1000)
                   /\ d.has_use_batch_strategy /\ total = 999 => ~d.use_batch_strategy
                   /\ d.has_use_batch_strategy /\ total = 1000 => d.use_batch_strategy
                   /\ d.strategy = "skip" => ~d.use_batch_strategy]_vars

\* a resume decision over exactly 1000 trades with the flag set, after a first
\* pass over 999 trades that ran without it and persisted its row
C25_Witness ==
    \E r \in RunIds : \E i \in TaskIds(r) : \E p \in summaries :
        LET t == tasks[r][i]
            log == trades[t.login]
        IN /\ t.pc = "process"
           /\ t.info.strategy = "resume"
           /\ t.info.use_batch_strategy
           /\ TradeCount(log, 1..Len(log)) = 1000
           /\ TradeCount(log, p.src_rows) = 999

\* a pipeline whose rolling-window frame could not be built
FrameNotBuilt(t) ==
    /\ Finished(t)
    /\ t.info.strategy \in {"from_scratch", "resume"}
    /\ ~t.frame_built

\* C26: a pipeline whose rolling-window frame cannot be built persists
\* nothing, and when the orchestrator collects it the account is counted as
\* failed, with an error message, and not as processed
C26_FrameFailureCounted ==
    [][\A r \in RunIds :
          /\ \A i \in TaskIds(r) :
                /\ tasks[r][i].pc = "process"
                /\ i \in 1..Len(tasks'[r])
                /\ FrameNotBuilt(tasks'[r][i])
                => summaries' = summaries
          /\ /\ Running(r)
             /\ run[r].done # <<>>
             /\ run'[r].done = Tail(run[r].done)
             /\ FrameNotBuilt(tasks[r][Head(run[r].done)])
             => /\ run'[r].failed = run[r].failed + 1
                /\ Len(run'[r].errors) = Len(run[r].errors) + 1
                /\ run'[r].processed = run[r].processed]_vars

\* C27: at every moment of a run at most max_workers pipelines are in
\* progress; the run holds one pipeline per submitted account, in the order
\* submitted; a pipeline starts only from the queue, never goes back to it
\* and never moves again once finished; and the run returns only when every
\* pipeline has finished
C27_BoundedConcurrency ==
    [][\A r \in RunIds :
          /\ Running(r) =>
                /\ Cardinality(InProgress(r)) <= run[r].max_workers
                /\ Len(tasks[r]) = Len(run[r].account_logins)
                /\ \A i \in TaskIds(r) : tasks[r][i].login = run[r].account_logins[i]
          /\ Running(r) /\ run'[r].status = "running" =>
                /\ Len(tasks'[r]) = Len(tasks[r])
                /\ \A i \in TaskIds(r) :
                      /\ tasks'[r][i].pc = "queued" => tasks[r][i].pc = "queued"
                      /\ tasks'[r][i].pc = "read_latest" =>
                            tasks[r][i].pc \in {"queued", "read_latest"}
                      /\ Finished(tasks[r][i]) => tasks'[r][i] = tasks[r][i]
          /\ Running(r) /\ run'[r].status = "returned" =>
                \A i \in TaskIds(r) : Finished(tasks[r][i])]_vars

\* a pool of one worker and two accounts: the first pipeline has finished,
\* the second is in progress
C27_Witness ==
    \E r \in RunIds :
        /\ Running(r)
        /\ run[r].max_workers = 1
        /\ Len(tasks[r]) = 2
        /\ Finished(tasks[r][1])
        /\ InProgress(r) = {2}

\* C28: a batch of one account is never rejected over a row of another
\* account; a pipeline step of one account leaves the persisted rows and the
\* pipelines of every other account as they are; and the decision and the
\* rows computed for an account are those its own rows and trades give,
\* whatever other accounts have persisted in the meantime
C28_AccountsIndependent ==
    [][\A r \in RunIds : \A i \in TaskIds(r) :
          LET t == tasks[r][i]
              a == t.login
              own == RecordsOf(summaries, a)
              last == GetTradesSummaryByLoginSync(own, a)
          IN /\ t.pc = "insert" =>
                   (PrimaryKeyViolated(summaries, t.batch)
                       <=> PrimaryKeyViolated(own, t.batch))
             /\ i \in 1..Len(tasks'[r]) /\ tasks'[r][i] # t =>
                   /\ \A b \in TradingLogins \ {a} :
                         RecordsOf(summaries', b) = RecordsOf(summaries, b)
                   /\ \A q \in RunIds : \A j \in TaskIds(q) :
                         tasks[q][j].login # a /\ j \in 1..Len(tasks'[q])
                            => tasks'[q][j] = tasks[q][j]
                   /\ t.pc = "read_count" /\ tasks'[r][i].pc # "raised" =>
                         tasks'[r][i].info =
                            DetermineAnalysisStrategy(last, t.latest, CountTrades(trades[a]))
                   /\ t.pc = "process" /\ tasks'[r][i].pc = "insert" =>
                         tasks'[r][i].batch =
                            Aggregate(a, trades[a],
                                      IF last = {} THEN FreshState
                                      ELSE SeedFrom(CHOOSE p \in last : TRUE))]_vars

\* two workers: the pipeline of account 2 has persisted its row while the
\* pipeline of account 1 holds a batch with a row of the same window
C28_Witness ==
    \E r \in RunIds : \E i, j \in TaskIds(r) : \E p \in summaries :
        /\ run[r].max_workers = 2
        /\ tasks[r][i].login = 1 /\ tasks[r][i].pc = "insert"
        /\ tasks[r][j].login = 2 /\ tasks[r][j].pc = "returned"
        /\ tasks[r][j].info.strategy = "from_scratch"
        /\ p.trading_account_login = 2
        /\ \E k \in 1..Len(tasks[r][i].batch) : tasks[r][i].batch[k].closed_at = p.closed_at

\* C29: when a pipeline decides with a last record and a latest trade
\* timestamp, a latest trade exactly one minute after the closed_at of the
\* record gives skip, a later one gives resume, and a latest trade before the
\* closed_at of the record gives skip
C29_InclusiveFreshness ==
    [][\A r \in RunIds : \A i \in TaskIds(r) :
          LET t == tasks[r][i]
              last == CHOOSE q \in t.last_record : TRUE
              difference == t.latest - last.closed_at
              strategy == tasks'[r][i].info.strategy
          IN /\ t.pc = "read_count"
             /\ t.last_record # {}
             /\ t.latest # NoTime
             /\ i \in 1..Len(tasks'[r])
             /\ tasks'[r][i].pc \in {"returned", "process"}
             => /\ difference = 60 => strategy = "skip"
                /\ difference > 60 => strategy = "resume"
                /\ difference < 0 => strategy = "skip"]_vars

\* a pipeline has decided to skip on a latest trade that closed two minutes
\* before the closed_at of the last record
C29_Witness ==
    \E r \in RunIds : \E i \in TaskIds(r) : \E q \in summaries :
        /\ tasks[r][i].pc = "returned"
        /\ tasks[r][i].info.strategy = "skip"
        /\ summaries = {q}
        /\ MostRecentTradeTimestamp(trades[tasks[r][i].login]) - q.closed_at = 0 - 120

\* the steps a pipeline may take from each of its positions
StepOrder ==
    [queued |-> {"read_latest"},
     read_latest |-> {"read_count", "raised"},
     read_count |-> {"process", "returned", "raised"},
     process |-> {"insert", "returned", "raised"},
     insert |-> {"returned", "raised"},
     returned |-> {},
     raised |-> {}]

\* C30: a pipeline reads the last summary row, then the latest trade
\* timestamp, then the trade count, then aggregates, then persists, one step
\* after the other and none twice; the table changes only in the persist
\* step of a pipeline; and a pipeline that decided skip ends at its decision,
\* without aggregating and without persisting
C30_StepOrder ==
    [][/\ \A r \in RunIds : \A i \in TaskIds(r) :
             LET t == tasks[r][i]
             IN /\ i \in 1..Len(tasks'[r]) /\ tasks'[r][i] # t =>
                      tasks'[r][i].pc \in StepOrder[t.pc]
                /\ t.pc \in {"queued", "read_latest", "read_count"} =>
                      t.info = NoDecision /\ ~t.frame_built /\ t.batch = <<>>
                /\ t.pc \in {"queued", "read_latest"} => t.read_rows = 0
                /\ t.pc = "queued" => t.last_record = {} /\ t.latest = NoTime
                /\ t.pc \in {"process", "insert"} =>
                      t.info.strategy \in {"from_scratch", "resume"}
                /\ t.pc = "process" => ~t.frame_built /\ t.batch = <<>>
                /\ t.pc = "insert" => t.frame_built /\ t.batch # <<>>
                /\ t.info.strategy = "skip" =>
                      t.pc = "returned" /\ ~t.frame_built /\ t.batch = <<>>
       /\ summaries' # summaries =>
             \E r \in RunIds : \E i \in TaskIds(r) :
                /\ tasks[r][i].pc = "insert"
                /\ tasks'[r][i].pc = "returned"
                /\ summaries' = summaries \cup Range(tasks[r][i].batch)]_vars

\* a pipeline has gone through all five steps of a resume, and the table
\* holds its rows next to those of the first pass
C30_Witness ==
    \E r \in RunIds : \E i \in TaskIds(r) :
        /\ tasks[r][i].pc = "returned"
        /\ tasks[r][i].info.strategy = "resume"
        /\ tasks[r][i].frame_built
        /\ tasks[r][i].batch = <<>>
        /\ ~tasks[r][i].info.use_batch_strategy
        /\ Cardinality(summaries) >= 2

\* the trades of the window of row p held for exactly a minute
HeldAMinuteIn(p) ==
    LET log == trades[p.trading_account_login]
    IN {x \in p.src_rows : log[x].closed_at - log[x].opened_at = 60}

\* C31: the hft of every row the engine produces is the number of trades of
\* its window with closed_at - opened_at below 60 seconds; a trade held for
\* exactly 60 seconds is not among them
C31_HftCount ==
    \A p \in ProducedRows :
        LET log == trades[p.trading_account_login]
        IN /\ p.hft = TradeCount(log, {x \in p.src_rows :
                                         log[x].closed_at - log[x].opened_at < 60})
           /\ p.hft <= TradeCount(log, p.src_rows \ HeldAMinuteIn(p))

\* persisted: a window of a trade held for exactly a minute, a shorter trade
\* and nothing else, with hft 1
C31_Witness ==
    \E p \in summaries :
        /\ Cardinality(p.src_rows) = 2
        /\ Cardinality(HeldAMinuteIn(p)) = 1
        /\ p.hft = 1

C33_EquityComplete ==
    [][\A r \in RunIds : \A i \in TaskIds(r) :
          LET t == tasks[r][i]
              a == t.login
              log == trades[a]
              read == IF t.pc = "insert"
                      THEN MaxOf(t.batch[Len(t.batch)].src_rows)
                      ELSE Len(log)
              mine == RecordsOf(summaries', a)
          IN /\ t.pc \in {"process", "insert"}
             /\ i \in 1..Len(tasks'[r])
             /\ tasks'[r][i].pc = "returned"
             => /\ mine # {}
                /\ \A q \in mine :
                      (\A p \in mine : p.closed_at <= q.closed_at) =>
                         q.last_equity = EquityAt(log, 1, INITIAL_EQUITY, read)]_vars

\* C34: a from_scratch or resume pipeline returns normally only with every
\* row of the not yet summarised windows persisted: if it returns without an
\* insert the aggregator had no row to give, if it returns from the insert
\* its whole batch is in the table, and only such a pipeline is counted as
\* processed
C34_ProcessedMeansPersisted ==
    [][\A r \in RunIds : \A i \in TaskIds(r) :
          LET t == tasks[r][i]
          IN /\ /\ t.pc = "process"
                /\ i \in 1..Len(tasks'[r])
                /\ tasks'[r][i].pc = "returned"
                => Aggregate(t.login, trades[t.login], StateOf(t)) = <<>>
             /\ /\ t.pc = "insert"
                /\ i \in 1..Len(tasks'[r])
                /\ tasks'[r][i].pc = "returned"
                => Range(t.batch) \subseteq summaries'
             /\ /\ Running(r)
                /\ run[r].done # <<>>
                /\ Head(run[r].done) = i
                /\ run'[r].processed = run[r].processed + 1
                => /\ t.pc = "returned"
                   /\ t.info.strategy \in {"from_scratch", "resume"}
                   /\ t.frame_built
                   /\ ~t.info.use_batch_strategy]_vars

\* C35: the three reads of the resolver and its decision leave the summary
\* table and the trade source as they are; a pipeline that decided skip is
\* finished with its decision, having built no frame and no batch; and every
\* change of the table is made by a from_scratch or resume pipeline
C35_ResolverReadOnly ==
    [][/\ \A r \in RunIds : \A i \in TaskIds(r) :
             LET t == tasks[r][i]
             IN /\ /\ t.pc \in {"queued", "read_latest", "read_count"}
                   /\ i \in 1..Len(tasks'[r])
                   /\ tasks'[r][i] # t
                   => /\ summaries' = summaries
                      /\ trades' = trades
                      /\ tasks'[r][i].info.strategy = "skip" =>
                            /\ tasks'[r][i].pc = "returned"
                            /\ ~tasks'[r][i].frame_built
                            /\ tasks'[r][i].batch = <<>>
                /\ t.info.strategy = "skip" /\ i \in 1..Len(tasks'[r]) =>
                      tasks'[r][i] = t
       /\ summaries' # summaries =>
             \E r \in RunIds : \E i \in TaskIds(r) :
                /\ tasks[r][i].info.strategy \in {"from_scratch", "resume"}
                /\ tasks'[r][i] # tasks[r][i]]_vars

\* a pipeline has decided skip and returned although the account has a trade
\* that no persisted row covers
C35_Witness ==
    \E r \in RunIds : \E i \in TaskIds(r) :
        LET t == tasks[r][i]
            log == trades[t.login]
        IN /\ t.pc = "returned"
           /\ t.info.strategy = "skip"
           /\ RecordsOf(summaries, t.login) # {}
           /\ \E x \in 1..Len(log) :
                 \A p \in RecordsOf(summaries, t.login) : x \notin p.src_rows

\* C36: every persisted row spans 60 seconds from its closed_at, which is
\* its lower boundary; every resume decision carries period_seconds = 60; and
\* the resume point plus the period of a resume pipeline is the start of the
\* window that follows the one of the row it read
C36_PeriodIsAMinute ==
    /\ \A p \in summaries :
          /\ p.upper_boundary - p.lower_boundary = 60
          /\ p.closed_at = p.lower_boundary
    /\ \A r \in RunIds : \A i \in TaskIds(r) :
          LET t == tasks[r][i]
          IN t.info.strategy = "resume" =>
                /\ t.info.period_seconds = 60
                /\ t.pc = "process" =>
                      \A q \in t.last_record :
                         /\ StateOf(t).resume_from + StateOf(t).period_seconds
                               = q.upper_boundary
                         /\ q.upper_boundary = q.closed_at + 60
                         /\ q.upper_boundary % 60 = 0

\* a resume pipeline is about to aggregate from the row of 00:01
C36_Witness ==
    \E r \in RunIds : \E i \in TaskIds(r) : \E q \in tasks[r][i].last_record :
        /\ tasks[r][i].pc = "process"
        /\ tasks[r][i].info.strategy = "resume"
        /\ q.closed_at = 60
        /\ Cardinality(summaries) = 2

C38_LayeredBelowHft ==
    \A p \in ProducedRows :
        /\ p.layered_trade_count <= p.hft
        /\ p.hft >= 1 => p.layered_trade_count <= p.hft - 1

\* persisted: a window whose short trades were all opened at the same time,
\* so that the layered count is the HFT count minus one
C38_Witness ==
    \E p \in summaries :
        /\ p.hft >= 2
        /\ p.layered_trade_count = p.hft - 1

\* what is left of the pipeline of task t, run to its end on the table and
\* the trade log as they are: how the account will be counted and the rows
\* it will add
Sequel(t, table, log) ==
    LET last == IF t.pc = "queued"
                THEN GetTradesSummaryByLoginSync(table, t.login)
                ELSE t.last_record
        latest == IF t.pc \in {"queued", "read_latest"}
                  THEN MostRecentTradeTimestamp(log)
                  ELSE t.latest
        d == IF t.pc \in {"queued", "read_latest", "read_count"}
             THEN DetermineAnalysisStrategy(last, latest, CountTrades(log))
             ELSE t.info
        state == IF d.strategy = "resume"
                 THEN ResumeState(d.period_seconds, CHOOSE q \in last : TRUE)
                 ELSE FreshState
        batch == IF t.pc = "insert" THEN t.batch
                 ELSE IF d.strategy = "skip" \/ d.use_batch_strategy THEN <<>>
                 ELSE Aggregate(t.login, log, state)
        res == InsertRecordsSync(table, batch, TRUE)
    IN IF t.pc = "raised" THEN [count |-> "failed", rows |-> {}]
       ELSE IF d.strategy = "skip" THEN [count |-> "skipped", rows |-> {}]
       ELSE IF t.pc = "returned" THEN [count |-> "processed", rows |-> {}]
       ELSE IF res.ok THEN [count |-> "processed", rows |-> res.table \ table]
       ELSE [count |-> "failed", rows |-> {}]

\* the statistics a run will return and the table it will leave behind if
\* every pipeline runs to its end from here: the counters so far plus the
\* sequels of the futures the as_completed loop has not counted yet
Outcome(stats, futures, table, source) ==
    LET ids == 1..Len(futures)
        seq == [i \in ids |-> Sequel(futures[i], table, source[futures[i].login])]
        uncounted == {i \in ids : ~Finished(futures[i]) \/ i \in Range(stats.done)}
        processed == {i \in uncounted : seq[i].count = "processed"}
        skipped == {i \in uncounted : seq[i].count = "skipped"}
        failed == {i \in uncounted : seq[i].count = "failed"}
    IN [processed |-> stats.processed + Cardinality(processed),
        skipped |-> stats.skipped + Cardinality(skipped),
        failed |-> stats.failed + Cardinality(failed),
        errors |-> Range(stats.errors) \cup {futures[i].login : i \in failed},
        table |-> table \cup UNION {seq[i].rows : i \in ids}]

\* C39: on a list of pairwise distinct logins no step of a worker or of the
\* orchestrating thread changes the statistics the call will return or the
\* table it will leave behind, whatever the other workers have done and
\* whatever the size of the pool: the outcome is the one fixed by the trade
\* source and the table; and the counters and the error list change only in
\* an iteration of the as_completed loop, by one account at a time
C39_InterleavingIndependence ==
    [][\A r \in RunIds :
          /\ Running(r) /\ (WorkerStep \/ OrchestratorStep)
             => Outcome(run'[r], tasks'[r], summaries', trades')
                = Outcome(run[r], tasks[r], summaries, trades)
          /\ /\ Running(r)
             /\ Running(r)'
             /\ <<run[r].processed, run[r].skipped, run[r].failed, run[r].errors>>
                # <<run[r].processed, run[r].skipped, run[r].failed, run[r].errors>>'
             => /\ Collect(r)
                /\ run[r].processed' + run[r].skipped' + run[r].failed'
                   = run[r].processed + run[r].skipped + run[r].failed + 1]_vars

\* two workers at once: the second account of the list has been counted as
\* processed with its rows persisted while the first is still in its pipeline
C39_Witness ==
    /\ Running(1)
    /\ run[1].max_workers = 2
    /\ Len(run[1].account_logins) = 2
    /\ run[1].processed = 1
    /\ run[1].done = <<>>
    /\ tasks[1][2].pc = "returned"
    /\ tasks[1][1].pc = "insert"
    /\ RecordsOf(summaries, tasks[1][2].login) # {}

\* the accounts run r has counted so far
Counted(r) == run[r].processed + run[r].skipped + run[r].failed

\* C40: when the pool workers and the calling thread keep running, every
\* call of execute_bulk_analysis that is under way eventually returns its
\* statistics, and a call that has returned has counted every account it
\* submitted
C40_Termination ==
    /\ \A r \in RunIds : Running(r) ~> run[r].status = "returned"
    /\ [](\A r \in RunIds :
             run[r].status = "returned" => Counted(r) = Len(run[r].account_logins))

\* a call on two accounts has returned, one account processed and one failed
C40_Witness ==
    /\ run[1].status = "returned"
    /\ Len(run[1].account_logins) = 2
    /\ run[1].processed = 1
    /\ run[1].failed = 1

====
